---- MODULE Spec2Model ----
(***************************************************************************)
(* Order lifecycle and synchronization server (server.js): the in-memory   *)
(* state {activeOrders, archivedOrders, operators}, its snapshot file      *)
(* orders.json, the startup load with cleanup, and the Socket.io handlers  *)
(* create_order, submit_measurement, reset_state and update_operators      *)
(* with the events they emit to the connected sockets.                     *)
(*                                                                         *)
(* Node runs every handler to completion on one thread and saveData uses   *)
(* writeFileSync, so each handler is one atomic action; concurrent clients *)
(* show as arbitrary interleavings of whole handlers.                      *)
(***************************************************************************)
EXTENDS Integers, Sequences, FiniteSets, TLC

(* ------------------------------ bounds -------------------------------- *)

\* Handler invocations (connection, disconnect and the four requests) per
\* behaviour.
MaxOps == 4

\* Handler invocations per behaviour when the delivery of events is followed.
MaxHubOps == 5

\* Writes of orders.json that fail per behaviour.
MaxWriteFailures == 1

\* Length of each list of a damaged orders.json given to the startup load.
MaxRaw == 3

(* ------------------------------ values -------------------------------- *)

\* A JavaScript value that is absent (undefined): a missing key reads as it.
Undefined == "<undefined>"

Sockets == {"s1", "s2"}

\* Ids a client puts in a create_order payload, and the drawings it names.
ClientIds == {"A", "B"}
Drawings == {"D1", "GEN"}

\* Readings of Date.now() (a wall clock: two calls may read the same value).
Times == {1}

\* The operator each measuring station (socket) signs its submissions with.
ControllerOf(s) == IF s = "s1" THEN "Niklas Jalvemyr" ELSE "Olle Ljungberg"

\* Operator lists a client sends with update_operators.
OperatorInputs == { <<>>, <<"Eva Berg">> }

VARIABLES
    phase,      \* "boot" before loadData() has run, "up" once the server listens
    state,      \* the in-memory state object
    file,       \* orders.json: [kind |-> "none" | "unreadable" | "corrupt" | "doc",
                \*               doc |-> the parsed document]
    sockets,    \* the connected sockets
    closed,     \* the sockets that have disconnected (a socket id is never reused)
    chan,       \* per socket: events emitted to it and not yet delivered
    recv,       \* per socket: events its client has received, in order
    handling,   \* the call most recently run: [type, arg]
    console,    \* the lines that call wrote to the console
    created,    \* ids create_order accepted since startup or the last reset
    accepted,   \* ids create_order has accepted since the process started
    minted,     \* per drawing: counter of the last serial number minted for the
                \* store (at startup: for the archived orders on file)
    opsLeft,    \* handler invocations the behaviour may still make
    failures    \* writes of orders.json that have failed so far

vars == <<phase, state, file, sockets, closed, chan, recv, handling, console,
          created, accepted, minted, opsLeft, failures>>

(* ------------------------------ objects ------------------------------- *)

\* o[f] in JavaScript: undefined when the key is missing.
Field(o, f) == IF f \in DOMAIN o THEN o[f] ELSE Undefined

\* An object literal without the keys whose value is absent.
Obj(r) == [k \in {f \in DOMAIN r : r[f] # Undefined} |-> r[k]]

\* array.map
RECURSIVE Map(_, _)
Map(Op(_), s) == IF s = <<>> THEN <<>> ELSE <<Op(Head(s))>> \o Map(Op, Tail(s))

\* array.filter
RECURSIVE Filter(_, _)
Filter(Keep(_), s) ==
    IF s = <<>> THEN <<>>
    ELSE (IF Keep(Head(s)) THEN <<Head(s)>> ELSE <<>>) \o Filter(Keep, Tail(s))

\* The set of ids of a list of orders.
IdsOf(list) == {Field(list[i], "id") : i \in DOMAIN list}

DefaultOperators == <<"Niklas Jalvemyr", "Olle Ljungberg">>

\* The state object the module starts with.
InitialState ==
    [activeOrders |-> <<>>, archivedOrders |-> <<>>, operators |-> DefaultOperators]

(* ---------------------------- persistence ----------------------------- *)

\* orders.json is not there; is there and cannot be read (readFileSync
\* throws); is read and is not JSON (JSON.parse throws).
NoFile == [kind |-> "none"]
UnreadableFile == [kind |-> "unreadable"]
CorruptFile == [kind |-> "corrupt"]

\* A parsed document is a record of its keys. The keys whose JSON value is
\* something other than an array (null, a number, an object) are listed
\* under notArray; the record holds NotAnArray in their place, which nothing
\* of the code below ever reads.
NotAnArray == <<>>
NotArrayKeys(doc) == IF "notArray" \in DOMAIN doc THEN doc.notArray ELSE {}

\* Array.isArray(doc[key])
IsArray(doc, key) == key \in DOMAIN doc /\ key \notin NotArrayKeys(doc)

\* A stringify that writes the two lists and leaves the roster out.
StringifyNoRoster(st) ==
    [kind |-> "doc",
     doc  |-> [activeOrders   |-> Map(Obj, st.activeOrders),
               archivedOrders |-> Map(Obj, st.archivedOrders)]]

\* JSON.stringify(state): keys whose value is undefined are left out.
Stringify(st) ==
    [kind |-> "doc",
     doc  |-> [activeOrders   |-> Map(Obj, st.activeOrders),
               archivedOrders |-> Map(Obj, st.archivedOrders),
               operators      |-> st.operators]]

\* Outcomes of fs.writeFileSync: written, refused before the file was opened
\* (the old content stays), or failed after truncation (unparseable content).
WriteOutcomes ==
    IF failures < MaxWriteFailures THEN {"ok", "refused", "torn"} ELSE {"ok"}

\* The count of failed writes after one more write with outcome w.
Failures(w) == IF w = "ok" THEN failures ELSE failures + 1

\* A reset, create or submit handler that never reaches its saveData() call.
SaveDataSkipped(st, w) == file

\* saveData(): the file after writing st with outcome w; errors are caught.
SaveData(st, w) ==
    CASE w = "ok"      -> Stringify(st)
      [] w = "refused" -> file
      [] w = "torn"    -> CorruptFile

\* The console line saveData() writes.
SaveLine(w) == IF w = "ok" THEN "Data Saved." ELSE "Failed to save data"

(* ------------------------------ startup ------------------------------- *)

\* The first-occurrence pass of loadData over one list (the Set `seen`).
RECURSIVE Dedup(_, _)
Dedup(list, seen) ==
    IF list = <<>> THEN <<>>
    ELSE LET o == Head(list)
             i == Field(o, "id")
         IN  IF i \in seen
             THEN Dedup(Tail(list), seen)
             ELSE <<o>> \o Dedup(Tail(list), seen \cup {i})

\* A dedup that keeps the last occurrence of every id.
RECURSIVE DedupLast(_)
DedupLast(list) ==
    IF list = <<>> THEN <<>>
    ELSE LET o == Head(list)
         IN  IF Field(o, "id") \in IdsOf(Tail(list))
             THEN DedupLast(Tail(list))
             ELSE <<o>> \o DedupLast(Tail(list))

UniqueByIdLast(list) == DedupLast(list)

\* uniqueActive / uniqueArchive: every id once, first occurrence kept.
UniqueById(list) == Dedup(list, {})

\* uniqueActive.filter(o => !archiveIds.has(o.id))
ArchiveWins(uniqueActive, archiveIds) ==
    LET Keep(o) == Field(o, "id") \notin archiveIds
    IN  Filter(Keep, uniqueActive)

\* The "if changed" test that guards the save in loadData.
NeedsRewrite(active, uniqueActive, archived, uniqueArchive) ==
    \/ Len(active) # Len(uniqueActive)
    \/ Len(archived) # Len(uniqueArchive)

\* A parsed document loadData can walk without a TypeError: both lists are
\* there and can be iterated.
WellShaped(doc) == IsArray(doc, "activeOrders") /\ IsArray(doc, "archivedOrders")

\* The roster test reduced to !state.operators: a value that is there and is
\* not an array is kept.
OperatorsIfPresent(doc) ==
    IF "operators" \in DOMAIN doc THEN doc.operators ELSE DefaultOperators

\* if (!state.operators || !Array.isArray(state.operators)) state.operators = [...]
OperatorsOf(doc) ==
    IF IsArray(doc, "operators") THEN doc.operators ELSE DefaultOperators

\* The state loadData builds from a well-shaped document.
Reconcile(doc) ==
    LET uniqueActive  == UniqueById(doc.activeOrders)
        uniqueArchive == UniqueById(doc.archivedOrders)
        archiveIds    == IdsOf(doc.archivedOrders)
    IN  [activeOrders   |-> ArchiveWins(uniqueActive, archiveIds),
         archivedOrders |-> uniqueArchive,
         operators      |-> OperatorsOf(doc)]

\* The state loadData() leaves when the process starts on the file f: the
\* module-level state where there is no file, the fallback of the catch
\* block where the file cannot be parsed or walked, the cleaned document
\* otherwise.
LoadedState(f) ==
    IF f.kind = "none" THEN InitialState
    ELSE IF f.kind \in {"unreadable", "corrupt"} \/ ~WellShaped(f.doc) THEN InitialState
    ELSE Reconcile(f.doc)

\* loadData() on the file f reaches its call of saveData().
LoadRewrites(f) ==
    /\ f.kind = "doc"
    /\ WellShaped(f.doc)
    /\ NeedsRewrite(Reconcile(f.doc).activeOrders, UniqueById(f.doc.activeOrders),
                    Reconcile(f.doc).archivedOrders, UniqueById(f.doc.archivedOrders))

\* loadData(), run once when the module is loaded.
LoadData ==
    /\ phase = "boot"
    /\ phase' = "up"
    /\ handling' = [type |-> "loadData", arg |-> file]
    /\ IF file.kind = "none"
       THEN /\ state' = state
            /\ file' = file
            /\ failures' = failures
            /\ console' = <<"No previous data found. Starting fresh.">>
       ELSE IF file.kind \in {"unreadable", "corrupt"} \/ ~WellShaped(file.doc)
       THEN /\ state' = InitialState
            /\ file' = file
            /\ failures' = failures
            /\ console' = <<"Failed to load data">>
       ELSE LET doc           == file.doc
                uniqueActive  == UniqueById(doc.activeOrders)
                uniqueArchive == UniqueById(doc.archivedOrders)
                st            == Reconcile(doc)
            IN  /\ state' = st
                /\ IF NeedsRewrite(st.activeOrders, uniqueActive,
                                   st.archivedOrders, uniqueArchive)
                   THEN \E w \in WriteOutcomes :
                            /\ file' = SaveData(st, w)
                            /\ failures' = Failures(w)
                            /\ console' = <<"Cleaned up duplicates/conflicts",
                                            SaveLine(w), "Loaded">>
                   ELSE /\ file' = file
                        /\ failures' = failures
                        /\ console' = <<"Loaded">>
    /\ UNCHANGED <<sockets, closed, chan, recv, created, accepted, minted, opsLeft>>

(* ------------------------------ sockets ------------------------------- *)

Event(type, payload) == [type |-> type, payload |-> payload]

\* socket.emit in place of io.emit: one socket alone gets the events.
BroadcastToOne(events) ==
    [chan EXCEPT ![CHOOSE t \in sockets : TRUE] = @ \o events]

\* io.emit after a saveData() that lets the write error out: when the write
\* of this call failed the emits are never reached.
BroadcastUnlessFailed(events) ==
    IF failures' # failures THEN chan
    ELSE [t \in Sockets |-> IF t \in sockets THEN chan[t] \o events ELSE chan[t]]

\* io.emit: the events go to every connected socket, in this order.
Broadcast(events) ==
    [t \in Sockets |-> IF t \in sockets THEN chan[t] \o events ELSE chan[t]]

\* io.emit in place of socket.emit: every connected socket gets the events.
EmitToAll(s, events) ==
    [t \in Sockets |-> IF t \in sockets \cup {s} THEN chan[t] \o events ELSE chan[t]]

\* socket.emit: the events go to this socket alone.
Emit(s, events) == [chan EXCEPT ![s] = @ \o events]

\* io.on('connection'): the new socket alone is sent the full state.
Connect(s) ==
    /\ phase = "up"
    /\ s \notin sockets \cup closed
    /\ opsLeft > 0
    /\ sockets' = sockets \cup {s}
    /\ chan' = Emit(s, <<Event("init_state", state)>>)
    /\ recv' = [recv EXCEPT ![s] = <<>>]
    /\ handling' = [type |-> "connection", arg |-> Undefined]
    /\ console' = <<"Client connected">>
    /\ opsLeft' = opsLeft - 1
    /\ UNCHANGED <<phase, state, file, closed, created, accepted, minted, failures>>

\* socket.on('disconnect'): the handler does nothing; the socket is gone.
Disconnect(s) ==
    /\ phase = "up"
    /\ s \in sockets
    /\ opsLeft > 0
    /\ sockets' = sockets \ {s}
    /\ closed' = closed \cup {s}
    /\ chan' = [chan EXCEPT ![s] = <<>>]
    /\ recv' = [recv EXCEPT ![s] = <<>>]
    /\ handling' = [type |-> "disconnect", arg |-> Undefined]
    /\ console' = <<>>
    /\ opsLeft' = opsLeft - 1
    /\ UNCHANGED <<phase, state, file, created, accepted, minted, failures>>

\* The transport hands a socket's client the oldest event still in flight.
Deliver(s) ==
    /\ s \in sockets
    /\ chan[s] # <<>>
    /\ recv' = [recv EXCEPT ![s] = Append(@, Head(chan[s]))]
    /\ chan' = [chan EXCEPT ![s] = Tail(@)]
    /\ UNCHANGED <<phase, state, file, sockets, closed, handling, console,
                   created, accepted, minted, opsLeft, failures>>

(* ------------------------------ serials ------------------------------- *)

Digit(n) ==
    CASE n = 0 -> "0" [] n = 1 -> "1" [] n = 2 -> "2" [] n = 3 -> "3"
      [] n = 4 -> "4" [] n = 5 -> "5" [] n = 6 -> "6" [] n = 7 -> "7"
      [] n = 8 -> "8" [] n = 9 -> "9"

\* Number.prototype.toString() of a natural number.
RECURSIVE ToStr(_)
ToStr(n) == IF n < 10 THEN Digit(n) ELSE ToStr(n \div 10) \o Digit(n % 10)

\* String.prototype.padStart with a one-character filler.
RECURSIVE PadStart(_, _, _)
PadStart(str, width, fill) ==
    IF Len(str) >= width THEN str ELSE PadStart(fill \o str, width, fill)

\* `O-${Date.now()}`
GenId(t) == "O-" \o ToStr(t)

\* !v for the values an id or a drawing number takes here.
Falsy(v) == v = Undefined \/ v = ""

\* The count taken over the whole archive, whatever the drawing.
ExistingCountAll(archived, drawingNumber) == Len(archived)

\* The count taken over the approved (OK) orders of the drawing only.
ExistingCountApproved(archived, drawingNumber) ==
    LET Same(o) == /\ Field(o, "drawingNumber") = drawingNumber
                   /\ Field(o, "status") = "OK"
    IN  Len(Filter(Same, archived))

\* archivedOrders.filter(o => o.drawingNumber === drawingNumber).length
ExistingCount(archived, drawingNumber) ==
    LET Same(o) == Field(o, "drawingNumber") = drawingNumber
    IN  Len(Filter(Same, archived))

\* `M-${drawingNumber || 'GEN'}-${(existingCount + 1).toString().padStart(3, '0')}`
SerialNumber(drawingNumber, existingCount) ==
    "M-" \o (IF Falsy(drawingNumber) THEN "GEN" ELSE drawingNumber)
         \o "-" \o PadStart(ToStr(existingCount + 1), 3, "0")

\* results.some(...) in place of results.every(...).
VerdictSome(results) ==
    IF \E i \in DOMAIN results : Field(results[i], "status") = "OK"
    THEN "OK" ELSE "FAIL"

\* results.every(r => r.status === 'OK') ? 'OK' : 'FAIL'
Verdict(results) ==
    IF \A i \in DOMAIN results : Field(results[i], "status") = "OK"
    THEN "OK" ELSE "FAIL"

(* ------------------------------ handlers ------------------------------ *)

\* The dedup test with the archive check left out.
ExistsActiveOnly(id) == id \in IdsOf(state.activeOrders)

\* The dedup test with the active check left out.
ExistsArchiveOnly(id) == id \in IdsOf(state.archivedOrders)

\* The dedup test of create_order: the id is in the active or the archived list.
Exists(id) == id \in IdsOf(state.activeOrders) \/ id \in IdsOf(state.archivedOrders)

\* array.findIndex(o => o.id === id), 0 standing for -1.
FindIndex(list, id) ==
    IF \E i \in DOMAIN list : Field(list[i], "id") = id
    THEN CHOOSE i \in DOMAIN list :
            /\ Field(list[i], "id") = id
            /\ \A j \in 1..(i - 1) : Field(list[j], "id") # id
    ELSE 0

\* array.splice(index): the order and everything after it is removed.
SpliceRest(list, index) == SubSeq(list, 1, index - 1)

\* array.splice(index, 1)
Splice(list, index) ==
    [i \in 1..(Len(list) - 1) |-> IF i < index THEN list[i] ELSE list[i + 1]]

\* The order with its id set (order.id = ...).
WithId(order, id) ==
    [k \in DOMAIN order \cup {"id"} |-> IF k = "id" THEN id ELSE order[k]]

\* The record built without the spread of the order.
CompletedOrderBare(order, results, controller, serialNumber, xml) ==
    [status       |-> Verdict(results),
     completedAt  |-> "completedAt",
     results      |-> results,
     controller   |-> controller,
     serialNumber |-> serialNumber,
     xml          |-> xml]

\* { ...order, status, completedAt, results, controller, serialNumber, xml }
CompletedOrder(order, results, controller, serialNumber, xml) ==
    [status       |-> Verdict(results),
     completedAt  |-> "completedAt",
     results      |-> results,
     controller   |-> controller,
     serialNumber |-> serialNumber,
     xml          |-> xml] @@ order

\* socket.on('create_order')
CreateOrder(s, payload) ==
    /\ phase = "up"
    /\ s \in sockets
    /\ opsLeft > 0
    /\ \E t \in Times :
        LET order == IF Falsy(Field(payload, "id"))
                     THEN WithId(payload, GenId(t)) ELSE payload
        IN  /\ handling' = [type |-> "create_order", arg |-> order.id]
            /\ IF Exists(order.id)
               THEN /\ console' = <<"New Order", "Duplicate Order ID blocked">>
                    /\ UNCHANGED <<state, file, chan, created, accepted, failures>>
               ELSE \E w \in WriteOutcomes :
                    LET st == [state EXCEPT !.activeOrders = <<order>> \o @]
                    IN  /\ state' = st
                        /\ file' = SaveData(st, w)
                        /\ failures' = Failures(w)
                        /\ console' = <<"New Order", SaveLine(w)>>
                        /\ chan' = Broadcast(
                              <<Event("order_created", order),
                                Event("active_orders_update", st.activeOrders)>>)
                        /\ created' = created \cup {order.id}
                        /\ accepted' = accepted \cup {order.id}
    /\ opsLeft' = opsLeft - 1
    /\ UNCHANGED <<phase, sockets, closed, recv, minted>>

\* socket.on('submit_measurement')
SubmitMeasurement(s, id, results, xml) ==
    /\ phase = "up"
    /\ s \in sockets
    /\ opsLeft > 0
    /\ handling' = [type |-> "submit_measurement", arg |-> id]
    /\ LET orderIndex == FindIndex(state.activeOrders, id)
       IN  IF orderIndex = 0
           THEN /\ console' = <<"Measurement received", "Order not found in active list!">>
                /\ UNCHANGED <<state, file, chan, minted, failures>>
           ELSE \E w \in WriteOutcomes :
                LET order == state.activeOrders[orderIndex]
                    drawingNumber == Field(order, "drawingNumber")
                    existingCount == ExistingCount(state.archivedOrders, drawingNumber)
                    serialNumber  == SerialNumber(drawingNumber, existingCount)
                    completedOrder ==
                        CompletedOrder(order, results, ControllerOf(s), serialNumber, xml)
                    st == [state EXCEPT
                             !.activeOrders = Splice(@, orderIndex),
                             !.archivedOrders = <<completedOrder>> \o @]
                IN  /\ state' = st
                    /\ file' = SaveData(st, w)
                    /\ failures' = Failures(w)
                    /\ console' = <<"Measurement received", SaveLine(w)>>
                    /\ chan' = Broadcast(
                          <<Event("order_completed", completedOrder),
                            Event("active_orders_update", st.activeOrders)>>)
                    /\ minted' = [minted EXCEPT ![drawingNumber] = existingCount + 1]
    /\ opsLeft' = opsLeft - 1
    /\ UNCHANGED <<phase, sockets, closed, recv, created, accepted>>

\* socket.on('reset_state')
ResetState(s) ==
    /\ phase = "up"
    /\ s \in sockets
    /\ opsLeft > 0
    /\ handling' = [type |-> "reset_state", arg |-> Undefined]
    /\ \E w \in WriteOutcomes :
        LET st == [state EXCEPT !.activeOrders = <<>>, !.archivedOrders = <<>>]
        IN  /\ state' = st
            /\ file' = SaveData(st, w)
            /\ failures' = Failures(w)
            /\ console' = <<"RESET command received", SaveLine(w)>>
            /\ chan' = Broadcast(<<Event("init_state", st)>>)
    /\ created' = {}
    /\ opsLeft' = opsLeft - 1
    /\ UNCHANGED <<phase, sockets, closed, recv, accepted, minted>>

\* socket.on('update_operators')
UpdateOperators(s, newOperatorList) ==
    /\ phase = "up"
    /\ s \in sockets
    /\ opsLeft > 0
    /\ handling' = [type |-> "update_operators", arg |-> Undefined]
    /\ \E w \in WriteOutcomes :
        LET st == [state EXCEPT !.operators = newOperatorList]
        IN  /\ state' = st
            /\ file' = SaveData(st, w)
            /\ failures' = Failures(w)
            /\ console' = <<"Updating Operator List", SaveLine(w)>>
            /\ chan' = Broadcast(<<Event("operators_updated", st.operators)>>)
    /\ opsLeft' = opsLeft - 1
    /\ UNCHANGED <<phase, sockets, closed, recv, created, accepted, minted>>

(* --------------------------- specification ---------------------------- *)

\* create_order payloads: the id and the drawing number may each be missing.
CreateInputs ==
    { Obj([id |-> p[1], articleNumber |-> "ART-1", drawingNumber |-> p[2]]) :
        p \in { <<"A", "D1">>, <<"B", "D1">>, <<"B", "GEN">>,
                <<Undefined, Undefined>> } }

\* Ids a submit_measurement payload names: known to clients, or stale.
SubmitIds == ClientIds \cup {GenId(t) : t \in Times}

\* The results and the xml report of a submit_measurement payload.
SubmitInputs ==
    { <<<<>>, Undefined>>,
      <<<<[status |-> "OK"]>>, "<report/>">>,
      <<<<[status |-> "OK"], [status |-> "FAIL"]>>, "<report/>">> }

DrawingKeys == Drawings \cup {Undefined, ""}

\* An archived record as submit_measurement wrote it in an earlier run.
Archived(id, drawingNumber, count, results) ==
    CompletedOrder(Obj([id |-> id, articleNumber |-> "ART-1",
                        drawingNumber |-> drawingNumber]),
                   results, "Eva Berg",
                   SerialNumber(drawingNumber, count), Undefined)

Active(id, drawingNumber) ==
    Obj([id |-> id, articleNumber |-> "ART-1", drawingNumber |-> drawingNumber])

Doc(active, archived) ==
    [kind |-> "doc",
     doc  |-> [activeOrders |-> active, archivedOrders |-> Map(Obj, archived),
               operators |-> DefaultOperators]]

\* orders.json as the server finds it when it first starts: missing,
\* unparseable, a double-written document, or a clean one.
StartFiles ==
    { NoFile,
      CorruptFile,
      Doc(<<Active("A", Undefined), Active("A", "D1"), Active("B", "D1")>>,
          <<Archived("B", "GEN", 0, <<[status |-> "OK"]>>)>>),
      Doc(<<Active("A", "D1"), Active("B", "D1")>>, <<>>) }

\* The serial counters already handed out for the orders a file holds.
InitMinted(f) ==
    [d \in DrawingKeys |->
        IF f.kind = "doc" /\ WellShaped(f.doc)
        THEN ExistingCount(UniqueById(f.doc.archivedOrders), d) ELSE 0]

\* The module-level state before loadData() runs, given the file on disk
\* the writes that have failed already and the handler invocations to explore.
Boot(f, failed, limit) ==
    /\ phase = "boot"
    /\ state = InitialState
    /\ file = f
    /\ sockets = {}
    /\ closed = {}
    /\ chan = [s \in Sockets |-> <<>>]
    /\ recv = [s \in Sockets |-> <<>>]
    /\ handling = [type |-> "start", arg |-> Undefined]
    /\ console = <<>>
    /\ created = {}
    /\ accepted = {}
    /\ minted = InitMinted(f)
    /\ opsLeft = limit
    /\ failures = failed

Init == \E f \in StartFiles : Boot(f, 0, MaxOps)

\* The server: startup, connections and the four request handlers.
Next ==
    \/ LoadData
    \/ \E s \in Sockets : Connect(s)
    \/ \E s \in Sockets : Disconnect(s)
    \/ \E s \in Sockets, payload \in CreateInputs : CreateOrder(s, payload)
    \/ \E s \in Sockets, id \in SubmitIds, p \in SubmitInputs :
          SubmitMeasurement(s, id, p[1], p[2])
    \/ \E s \in Sockets : ResetState(s)
    \/ \E s \in Sockets, list \in OperatorInputs : UpdateOperators(s, list)

Spec == Init /\ [][Next]_vars

(* ------------------- the startup load on damaged files ----------------- *)

\* Orders a damaged file may hold in its lists: the same id with different
\* content, so that which copy survives shows.
RawActive == { Active(i, d) : i \in ClientIds, d \in Drawings }
RawArchived ==
    { Obj(Archived(i, d, 0, <<[status |-> "OK"]>>)) : i \in ClientIds, d \in Drawings }

\* All lists over a set of orders, up to a length.
ListsOver(S, n) == UNION { [1..k -> S] : k \in 0..n }

RawFiles ==
    { Doc(a, r) : a \in ListsOver(RawActive, MaxRaw), r \in ListsOver(RawArchived, MaxRaw - 1) }

\* A document with good orders in which each of the three keys is there as
\* an array, is there as something else, or is missing.
DocKeys == {"activeOrders", "archivedOrders", "operators"}

Damaged(missing, other) ==
    LET whole == [activeOrders   |-> <<Active("A", "D1")>>,
                  archivedOrders |-> <<Obj(Archived("B", "D1", 0, <<[status |-> "OK"]>>))>>,
                  operators      |-> <<"Eva Berg">>,
                  notArray       |-> other]
        keys  == (DocKeys \ missing) \cup (IF other = {} THEN {} ELSE {"notArray"})
    IN  [kind |-> "doc",
         doc  |-> [k \in keys |-> IF k \in other THEN NotAnArray ELSE whole[k]]]

DamagedFiles ==
    {NoFile, UnreadableFile, CorruptFile} \cup
    UNION { { Damaged(missing, other) : other \in SUBSET (DocKeys \ missing) } :
              missing \in SUBSET DocKeys }

InitLoad == \E f \in RawFiles \cup DamagedFiles : Boot(f, 0, MaxOps)

SpecLoad == InitLoad /\ [][LoadData]_vars

(* ------------------------ the server and its clients ------------------ *)

\* The requests the clients send while the delivery of events is followed;
\* the disk does not fail here (the failures allowed are spent).
HubFiles == { NoFile, Doc(<<Active("B", "D1")>>, <<>>) }
HubCreateInputs == { Active("A", "D1") }
HubSubmitIds == {"A", "B"}
HubSubmitInputs == { <<<<[status |-> "OK"]>>, "<report/>">> }
HubOperatorInputs == { <<"Eva Berg">> }

InitHub == \E f \in HubFiles : Boot(f, MaxWriteFailures, MaxHubOps)

NextHub ==
    \/ LoadData
    \/ \E s \in Sockets : Connect(s)
    \/ \E s \in Sockets : Disconnect(s)
    \/ \E s \in Sockets : Deliver(s)
    \/ \E s \in Sockets, payload \in HubCreateInputs : CreateOrder(s, payload)
    \/ \E s \in Sockets, id \in HubSubmitIds, p \in HubSubmitInputs :
          SubmitMeasurement(s, id, p[1], p[2])
    \/ \E s \in Sockets : ResetState(s)
    \/ \E s \in Sockets, list \in HubOperatorInputs : UpdateOperators(s, list)

SpecHub == InitHub /\ [][NextHub]_vars

(* ------------------------------ properties ---------------------------- *)

ActiveIds == IdsOf(state.activeOrders)
ArchivedIds == IdsOf(state.archivedOrders)

\* How many orders of a list carry the id.
Occurrences(list, id) == Cardinality({i \in DOMAIN list : Field(list[i], "id") = id})

\* The step is one run of the handler of the given request type.
Handled(type) == opsLeft' # opsLeft /\ handling'.type = type

\* saveData() was called by the call that wrote these console lines.
SaveCalled(lines) ==
    \E i \in DOMAIN lines : lines[i] \in {"Data Saved.", "Failed to save data"}

\* The three-digit counter text of the k-th serial number of a drawing.
Padded(k) ==
    CASE k = 1 -> "001" [] k = 2 -> "002" [] k = 3 -> "003" [] k = 4 -> "004"
      [] k = 5 -> "005" [] k = 6 -> "006" [] k = 7 -> "007" [] k = 8 -> "008"
      [] k = 9 -> "009"

\* The archived orders of one drawing, oldest first (the archive is newest first).
RECURSIVE Reverse(_)
Reverse(list) == IF list = <<>> THEN <<>> ELSE Append(Reverse(Tail(list)), Head(list))

OfDrawing(d) ==
    LET Same(o) == Field(o, "drawingNumber") = d
    IN  Reverse(Filter(Same, state.archivedOrders))

\* C1: once the server is up, no id is in both lists, and every id that
\* create_order accepted since startup or the last reset is in exactly one.
C1_OnePartition ==
    phase = "up" =>
        /\ ActiveIds \cap ArchivedIds = {}
        /\ \A id \in created : id \in ActiveIds \cup ArchivedIds

\* C1 witness: two accepted orders, one still active and one archived.
C1_Witness ==
    \E a, b \in created : a \in ActiveIds /\ b \in ArchivedIds

\* C2: a create_order whose id is already in the active or the archived list
\* changes neither list, writes nothing, emits nothing; after any
\* create_order exactly one stored order carries the id.
C2_DuplicateCreateIsNoOp ==
    [][ Handled("create_order") =>
          LET id == handling'.arg
          IN  /\ Occurrences(state'.activeOrders \o state'.archivedOrders, id) = 1
              /\ (id \in ActiveIds \cup ArchivedIds =>
                    /\ state' = state
                    /\ file' = file
                    /\ chan' = chan
                    /\ ~SaveCalled(console')) ]_vars

\* C2 witness: a create_order was blocked for an id held by the archive.
C2_Witness ==
    /\ handling.type = "create_order"
    /\ console = <<"New Order", "Duplicate Order ID blocked">>
    /\ handling.arg \in ArchivedIds
    /\ sockets # {}

\* C3: a submit_measurement for an active id removes that order alone from
\* the active list and puts one record for it at the head of the archive;
\* for any other id it changes neither list, writes nothing, emits nothing.
C3_SubmitMovesOnce ==
    [][ Handled("submit_measurement") =>
          LET id == handling'.arg
              Other(o) == Field(o, "id") # id
          IN  IF id \in ActiveIds
              THEN /\ state'.activeOrders = Filter(Other, state.activeOrders)
                   /\ Len(state'.archivedOrders) = Len(state.archivedOrders) + 1
                   /\ Tail(state'.archivedOrders) = state.archivedOrders
                   /\ Field(Head(state'.archivedOrders), "id") = id
                   /\ id \notin IdsOf(state'.activeOrders)
              ELSE /\ state' = state
                   /\ file' = file
                   /\ chan' = chan
                   /\ ~SaveCalled(console') ]_vars

\* C3 witness: a second submission for an order that is already archived,
\* while another order is still active.
C3_Witness ==
    /\ handling.type = "submit_measurement"
    /\ console = <<"Measurement received", "Order not found in active list!">>
    /\ handling.arg \in ArchivedIds
    /\ state.activeOrders # <<>>

\* C4 as claimed: over the whole run every serial number minted for a
\* drawing has a counter above every one minted for it before.
C4_IncreasingOverWholeRun ==
    [][ (Handled("submit_measurement") /\ state' # state) =>
          LET d == Field(Head(state'.archivedOrders), "drawingNumber")
          IN  minted'[d] > minted[d] ]_vars

\* C4 amended: among the orders the archive holds (that is, since the last
\* reset_state), the k-th order archived for a drawing carries the serial
\* number M-{drawing}-{k padded to three digits}: the numbers start at 001
\* and strictly increase.
C4_SerialsCountUp ==
    \A d \in DrawingKeys :
        LET list == OfDrawing(d)
        IN  \A k \in DOMAIN list :
                list[k].serialNumber =
                    "M-" \o (IF d \in {Undefined, ""} THEN "GEN" ELSE d) \o "-" \o Padded(k)

\* C4 witness: two archived orders of drawing D1, numbered 001 and 002.
C4_Witness ==
    /\ Len(OfDrawing("D1")) = 2
    /\ OfDrawing("D1")[1].serialNumber = "M-D1-001"
    /\ OfDrawing("D1")[2].serialNumber = "M-D1-002"
    /\ handling.type = "submit_measurement"

\* C5: no two archived orders of the same drawing carry the same serial number.
C5_SerialUniquePerDrawing ==
    \A i, j \in DOMAIN state.archivedOrders :
        LET a == state.archivedOrders[i]
            b == state.archivedOrders[j]
        IN  (i # j /\ Field(a, "drawingNumber") = Field(b, "drawingNumber"))
                => a.serialNumber # b.serialNumber

\* C5 witness: two archived orders of one drawing, submitted from two sockets.
C5_Witness ==
    \E i, j \in DOMAIN state.archivedOrders :
        LET a == state.archivedOrders[i]
            b == state.archivedOrders[j]
        IN  /\ i # j
            /\ Field(a, "drawingNumber") = Field(b, "drawingNumber")
            /\ a.controller = ControllerOf("s1")
            /\ b.controller = ControllerOf("s2")
            /\ handling.type = "submit_measurement"
            /\ sockets = {"s1", "s2"}

\* C6: an archived order is OK exactly when every entry of its results is
\* OK, FAIL otherwise; it has no other status.
C6_Verdict ==
    \A i \in DOMAIN state.archivedOrders :
        LET o == state.archivedOrders[i]
            allOk == \A k \in DOMAIN o.results : o.results[k].status = "OK"
        IN  /\ o.status \in {"OK", "FAIL"}
            /\ (o.status = "OK") <=> allOk

\* C6 witness: the archive holds an order with no results (OK) and one with
\* a failing entry (FAIL), both archived by submit_measurement.
C6_Witness ==
    /\ handling.type = "submit_measurement"
    /\ \E i, j \in DOMAIN state.archivedOrders :
        /\ state.archivedOrders[i].results = <<>>
        /\ state.archivedOrders[i].status = "OK"
        /\ state.archivedOrders[j].results # <<>>
        /\ state.archivedOrders[j].status = "FAIL"

\* loadData() has just run on a document it could walk.
Loaded ==
    /\ phase = "up"
    /\ handling.type = "loadData"
    /\ handling.arg.kind = "doc"
    /\ WellShaped(handling.arg.doc)

\* The positions of a list that hold the first occurrence of their id.
FirstIdx(list) ==
    {i \in DOMAIN list : \A j \in 1..(i - 1) : Field(list[j], "id") # Field(list[i], "id")}

\* r is the list of the entries of `list` at the positions idx, in their order.
IsSubAt(r, list, idx) ==
    /\ Len(r) = Cardinality(idx)
    /\ \A i \in idx : r[Cardinality({j \in idx : j <= i})] = list[i]

\* C7: after the startup load of a document, the archived list is the raw
\* archived list cut down to the first occurrence of every id, and the
\* active list is the raw active list cut down to the first occurrence of
\* every id that the raw archived list does not hold, both in the raw order;
\* so each list holds every id at most once.
C7_Reconciled ==
    Loaded =>
        LET raw  == handling.arg.doc
            keep == {i \in FirstIdx(raw.activeOrders) :
                        Field(raw.activeOrders[i], "id") \notin IdsOf(raw.archivedOrders)}
        IN  /\ IsSubAt(state.archivedOrders, raw.archivedOrders, FirstIdx(raw.archivedOrders))
            /\ IsSubAt(state.activeOrders, raw.activeOrders, keep)
            /\ \A id \in ActiveIds : Occurrences(state.activeOrders, id) = 1
            /\ \A id \in ArchivedIds : Occurrences(state.archivedOrders, id) = 1
            /\ ActiveIds \cap ArchivedIds = {}

\* C7 witness: active=[A,A,B], archived=[B] has become active=[A] (the first
\* copy of A), archived=[B].
C7_Witness ==
    /\ Loaded
    /\ handling.arg.doc.activeOrders =
         <<Active("A", "D1"), Active("A", "GEN"), Active("B", "D1")>>
    /\ Len(handling.arg.doc.archivedOrders) = 1
    /\ IdsOf(handling.arg.doc.archivedOrders) = {"B"}
    /\ state.activeOrders = <<Active("A", "D1")>>
    /\ state.archivedOrders = handling.arg.doc.archivedOrders

\* C8 as claimed: the startup load calls saveData() exactly when a list of
\* the state is shorter than the same list of the raw document.
C8_RewriteIffSizeChanged ==
    Loaded =>
        LET raw == handling.arg.doc
        IN  SaveCalled(console) <=>
                \/ Len(state.activeOrders) # Len(raw.activeOrders)
                \/ Len(state.archivedOrders) # Len(raw.archivedOrders)

\* The call most recently run wrote orders.json, or tried to and failed.
Written(lines) == \E i \in DOMAIN lines : lines[i] = "Data Saved."
WriteFailed(lines) == \E i \in DOMAIN lines : lines[i] = "Failed to save data"

NoOrders(st) == st.activeOrders = <<>> /\ st.archivedOrders = <<>>

GeneratedIds == {GenId(t) : t \in Times}

\* C12 as claimed: a create_order that has to generate the order's id (the
\* payload has none) never gets an id that an earlier order holds, so it is
\* never blocked as a duplicate.
C12_GeneratedIdIsFresh ==
    [][ (Handled("create_order") /\ handling'.arg \in GeneratedIds) =>
            /\ handling'.arg \notin ActiveIds \cup ArchivedIds
            /\ handling'.arg \in IdsOf(state'.activeOrders)
            /\ state' # state ]_vars

\* C13 as claimed: a create_order is never accepted for an id that an
\* earlier create_order of this process was accepted for, whatever happened
\* in between (archival, reset_state, ...).
C13_IdNeverAcceptedTwice ==
    [][ (Handled("create_order") /\ state' # state) =>
            handling'.arg \notin accepted ]_vars

\* C13 amended: a create_order for an id that create_order accepted since
\* the process started or since the last reset_state is not accepted, whether
\* the order is still active or archived by now: state, file and channels
\* stay as they are.
C13_IdUniqueUntilReset ==
    [][ (Handled("create_order") /\ handling'.arg \in created) =>
            /\ state' = state
            /\ file' = file
            /\ chan' = chan
            /\ created' = created ]_vars

\* C13 witness: a create_order was blocked for an id accepted earlier in
\* this run, whose order has been archived since.
C13_Witness ==
    /\ handling.type = "create_order"
    /\ console = <<"New Order", "Duplicate Order ID blocked">>
    /\ handling.arg \in created
    /\ handling.arg \in ArchivedIds
    /\ handling.arg \notin ActiveIds

\* Every connected socket was emitted exactly these events by the step.
Emitted(events) == \A s \in Sockets :
    chan'[s] = IF s \in sockets THEN chan[s] \o events ELSE chan[s]

Mutations == {"create_order", "submit_measurement", "reset_state", "update_operators"}

\* C14: when the write of orders.json fails in a create_order,
\* submit_measurement, reset_state or update_operators, the handler still
\* makes its change to the state in memory and still emits its events to
\* every connected socket, the server stays up, and it goes on to apply the
\* requests that follow to the state in memory.
C14_WriteFailureNotPropagated ==
    [][ \A type \in Mutations :
          /\ (Handled(type) /\ WriteFailed(console')) =>
                /\ phase' = "up"
                /\ sockets' = sockets
                /\ CASE type = "create_order" ->
                          /\ handling'.arg \notin ActiveIds \cup ArchivedIds
                          /\ Head(state'.activeOrders).id = handling'.arg
                          /\ Tail(state'.activeOrders) = state.activeOrders
                          /\ Emitted(<<[type |-> "order_created",
                                        payload |-> Head(state'.activeOrders)],
                                       [type |-> "active_orders_update",
                                        payload |-> state'.activeOrders]>>)
                     [] type = "submit_measurement" ->
                          /\ handling'.arg \in ActiveIds
                          /\ handling'.arg \notin IdsOf(state'.activeOrders)
                          /\ Head(state'.archivedOrders).id = handling'.arg
                          /\ Tail(state'.archivedOrders) = state.archivedOrders
                          /\ Emitted(<<[type |-> "order_completed",
                                        payload |-> Head(state'.archivedOrders)],
                                       [type |-> "active_orders_update",
                                        payload |-> state'.activeOrders]>>)
                     [] type = "reset_state" ->
                          /\ NoOrders(state')
                          /\ Emitted(<<[type |-> "init_state", payload |-> state']>>)
                     [] type = "update_operators" ->
                          /\ state'.activeOrders = state.activeOrders
                          /\ state'.archivedOrders = state.archivedOrders
                          /\ Emitted(<<[type |-> "operators_updated",
                                        payload |-> state'.operators]>>)
          /\ (Handled(type) /\ failures > 0) =>
                /\ phase' = "up"
                /\ (type = "create_order" /\ handling'.arg \notin ActiveIds \cup ArchivedIds)
                      => handling'.arg \in IdsOf(state'.activeOrders)
                /\ (type = "submit_measurement" /\ handling'.arg \in ActiveIds)
                      => handling'.arg \in IdsOf(state'.archivedOrders)
                /\ type = "reset_state" => NoOrders(state') ]_vars

\* C14 witness: an order was created while the disk failed (it is in memory
\* and not on file when the write is refused), and a later submit_measurement
\* archived that order and was saved.
C14_Witness ==
    /\ failures > 0
    /\ handling.type = "submit_measurement"
    /\ Written(console)
    /\ handling.arg \in created
    /\ handling.arg \in ArchivedIds
    /\ file = Stringify(state)

\* loadData() has just run.
Started == phase = "up" /\ handling.type = "loadData"

\* The file loadData() found cannot be parsed, or its document lacks a list
\* that can be walked.
Malformed(f) == f.kind = "corrupt" \/ (f.kind = "doc" /\ ~WellShaped(f.doc))

\* C15 as claimed: when the startup load finds a malformed document it
\* starts from the empty state and rewrites orders.json with it, so that the
\* file is a well-formed document when the server starts to listen.
C15_MalformedIsRewritten ==
    (Started /\ Malformed(handling.arg)) =>
        /\ state = InitialState
        /\ SaveCalled(console)
        /\ (Written(console) => file = Stringify(InitialState))

\* The members of a list.
Range(list) == {list[i] : i \in DOMAIN list}

CompletionFields == {"status", "completedAt", "results", "controller", "serialNumber"}

\* C17: a create_order, submit_measurement or update_operators leaves every
\* archived record as it is, field for field, at its place in the archive
\* (a submit_measurement puts one record in front), and moves none of them
\* to the active list. The record a submit_measurement puts in front has the
\* fields of the active order it was made from, which had no serial number,
\* and has its serial number and the other completion fields from this step.
C17_ArchivedIsImmutable ==
    [][ \A type \in {"create_order", "submit_measurement", "update_operators"} :
          Handled(type) =>
            LET old == state.archivedOrders
                new == state'.archivedOrders
                n   == Len(new) - Len(old)
            IN  /\ n \in {0, 1}
                /\ \A i \in DOMAIN old : new[i + n] = old[i]
                /\ IdsOf(state'.activeOrders) \cap ArchivedIds = {}
                /\ \A i \in DOMAIN state'.activeOrders :
                      DOMAIN state'.activeOrders[i] \cap CompletionFields = {}
                /\ n = 1 =>
                      /\ type = "submit_measurement"
                      /\ \E i \in DOMAIN state.activeOrders :
                            LET order == state.activeOrders[i]
                            IN  /\ Field(order, "id") = handling'.arg
                                /\ DOMAIN order \subseteq DOMAIN new[1]
                                /\ \A k \in DOMAIN order : new[1][k] = order[k]
                      /\ CompletionFields \subseteq DOMAIN new[1]
                      /\ new[1].serialNumber # Undefined ]_vars

\* C17 witness: an order created and archived in this run is in the archive
\* with its serial number after a later update_operators.
C17_Witness ==
    /\ handling.type = "update_operators"
    /\ \E i \in DOMAIN state.archivedOrders :
          /\ state.archivedOrders[i].id \in created
          /\ state.archivedOrders[i].serialNumber = "M-D1-001"
          /\ state.archivedOrders[i].articleNumber = "ART-1"

\* Everything emitted to a socket since it connected, in the order of emission.
Stream(s) == recv[s] \o chan[s]

IsPrefix(a, b) == Len(a) <= Len(b) /\ SubSeq(b, 1, Len(a)) = a

Incremental ==
    {"order_created", "order_completed", "active_orders_update", "operators_updated"}

\* The first thing emitted to every connected socket is an init_state.
InitStateFirst ==
    \A s \in sockets : Stream(s) # <<>> /\ Stream(s)[1].type = "init_state"

\* C9: the step in which a socket connects emits one init_state event, to
\* that socket and to no other, carrying the state as it is at that moment;
\* and for every socket the init_state comes before every incremental event
\* (nothing is emitted to it or received by it ahead of the init_state).
C9_InitStateOnConnect ==
    [][ /\ \A s \in Sockets :
             (s \notin sockets /\ s \in sockets') =>
                 /\ chan'[s] = <<[type |-> "init_state", payload |-> state]>>
                 /\ recv'[s] = <<>>
                 /\ state' = state
                 /\ \A t \in Sockets \ {s} : chan'[t] = chan[t] /\ recv'[t] = recv[t]
        /\ InitStateFirst' ]_vars

\* C9 witness: one socket has received its init_state and then incremental
\* events, and a socket that connected later has an init_state with other content.
C9_Witness ==
    /\ sockets = {"s1", "s2"}
    /\ Len(recv["s1"]) >= 2
    /\ recv["s1"][1].type = "init_state"
    /\ recv["s1"][2].type \in Incremental
    /\ recv["s2"] # <<>>
    /\ recv["s2"][1].type = "init_state"
    /\ recv["s2"][1].payload # recv["s1"][1].payload

\* In a socket's stream no order_created for an id follows an
\* order_completed for that id, unless a reset (init_state) lies between.
CompletedAfterCreated(log) ==
    \A i, j \in DOMAIN log :
        ( /\ i < j
          /\ log[i].type = "order_completed"
          /\ log[j].type = "order_created"
          /\ log[i].payload.id = log[j].payload.id )
        => \E k \in (i + 1)..(j - 1) : log[k].type = "init_state"

\* C10: a socket receives the events in the order they were emitted to it
\* (what it has received grows at the end only and is always the front of
\* what was emitted), and the order_created of an order is emitted to it, and
\* so received by it, before the order_completed of that order.
C10_EventsInOrder ==
    [][ \A s \in sockets' :
          /\ CompletedAfterCreated(recv'[s] \o chan'[s])
          /\ (s \in sockets =>
                /\ IsPrefix(recv[s], recv'[s])
                /\ IsPrefix(recv[s] \o chan[s], recv'[s] \o chan'[s])) ]_vars

\* C10 witness: a socket has received the order_created and, after it, the
\* order_completed of the same order.
C10_Witness ==
    \E s \in sockets : \E i, j \in DOMAIN recv[s] :
        /\ i < j
        /\ recv[s][i].type = "order_created"
        /\ recv[s][j].type = "order_completed"
        /\ recv[s][i].payload.id = recv[s][j].payload.id

\* A state as a client reads it off the wire (JSON: absent values are left out).
Json(st) ==
    [activeOrders   |-> Map(Obj, st.activeOrders),
     archivedOrders |-> Map(Obj, st.archivedOrders),
     operators      |-> st.operators]

\* The view a client builds from the events it has received: init_state
\* replaces everything, active_orders_update the active list,
\* operators_updated the roster, order_completed goes in front of the archive.
RECURSIVE View(_)
View(log) ==
    IF log = <<>> THEN Json(InitialState)
    ELSE LET v == View(SubSeq(log, 1, Len(log) - 1))
             e == log[Len(log)]
         IN  CASE e.type = "init_state" -> Json(e.payload)
               [] e.type = "active_orders_update" ->
                     [v EXCEPT !.activeOrders = Map(Obj, e.payload)]
               [] e.type = "order_completed" ->
                     [v EXCEPT !.archivedOrders = <<Obj(e.payload)>> \o @]
               [] e.type = "operators_updated" ->
                     [v EXCEPT !.operators = e.payload]
               [] OTHER -> v

\* What a step has emitted to a socket.
Added(s) == SubSeq(chan'[s], Len(chan[s]) + 1, Len(chan'[s]))

\* C18: a step of a request handler emits the same events, in the same
\* order, to every connected socket (the sender of the request is one of
\* them), at least one when it has changed the state; and the view of every
\* connected socket whose events have all been delivered equals the state of
\* the server, as does at any time the view over all events emitted to it.
C18_ViewsConverge ==
    [][ /\ \A type \in Mutations :
              Handled(type) =>
                /\ sockets # {}
                /\ \A s \in sockets : IsPrefix(chan[s], chan'[s]) /\ recv'[s] = recv[s]
                /\ \A s, t \in sockets : Added(s) = Added(t)
                /\ state' # state => \A s \in sockets : Added(s) # <<>>
        /\ \A s \in sockets' :
              /\ View(recv'[s] \o chan'[s]) = Json(state')
              /\ chan'[s] = <<>> => View(recv'[s]) = Json(state') ]_vars

\* C18 witness: two sockets that connected at different points of the run
\* (one was sent orders on connecting that the other saw arrive) have both
\* received everything emitted to them, after an order was archived.
C18_Witness ==
    /\ sockets = {"s1", "s2"}
    /\ chan["s1"] = <<>>
    /\ chan["s2"] = <<>>
    /\ Len(recv["s1"]) > Len(recv["s2"])
    /\ Len(recv["s2"]) >= 2
    /\ recv["s1"][1].payload # recv["s2"][1].payload
    /\ state.archivedOrders # <<>>
    /\ View(recv["s1"]) = View(recv["s2"])

\* C19: after a create_order, submit_measurement, update_operators or
\* reset_state that wrote orders.json, the document on file is the state in
\* memory, and a process that starts on that file gets the same active list,
\* archived list and roster, in the same order, and does not rewrite the file.
C19_FileMirrorsState ==
    [][ \A type \in Mutations :
          (Handled(type) /\ Written(console')) =>
              /\ file'.kind = "doc"
              /\ file'.doc = Json(state')
              /\ LoadedState(file') = Json(state')
              /\ ~LoadRewrites(file') ]_vars

\* C19 witness: a written state with an active order, an archived order and
\* a roster that is not the default one, which a restart gives back.
C19_Witness ==
    /\ handling.type \in Mutations
    /\ Written(console)
    /\ state.activeOrders # <<>>
    /\ state.archivedOrders # <<>>
    /\ state.operators = <<"Eva Berg">>
    /\ LoadedState(file) = Json(state)

\* C20 as claimed: no two orders of the archive carry the same serial
\* number, whatever their drawing numbers.
C20_SerialUniqueInArchive ==
    \A i, j \in DOMAIN state.archivedOrders :
        i # j => state.archivedOrders[i].serialNumber # state.archivedOrders[j].serialNumber

====
